---- MODULE Spec2Model ----
(***************************************************************************)
(* Model of the Remi planning pipeline:                                    *)
(*   - smart_schedule_sessions (backend/app/api/study_plan.py), the        *)
(*     deadline-aware multi-day session scheduler;                         *)
(*   - PrioritizationAgent (backend/app/agents/prioritization_agent.py),   *)
(*     the heuristic scorer and its fusion with the LLM ranking;           *)
(*   - WorkloadPredictionAgent (agents/workload_prediction_agent.py),      *)
(*     the freeform estimate and its fusion with the calibrated one;       *)
(*   - OrchestratorAgent._workflow_full_pipeline, which calls the parsing, *)
(*     estimation, prioritization and scheduling stages in turn;           *)
(*   - OrchestratorAgent.execute_workflow called several times on the one  *)
(*     orchestrator object, with its shared context dict.                  *)
(*                                                                         *)
(* Numbers.  Python floats holding hours are modelled as fixed-point       *)
(* numbers with resolution 1/Scale hour; the inputs are multiples of a     *)
(* tenth of an hour.  The product with the bias factors 1.1 and 0.95 is    *)
(* rounded to the nearest unit, as a float product is rounded to the       *)
(* nearest float.  round(x, 1) of a value that lies exactly half way       *)
(* between two tenths depends on the float's representation error, so the  *)
(* model allows both neighbours.                                           *)
(* Dates are day numbers; a due date is None or a day number.              *)
(***************************************************************************)
EXTENDS Integers, Sequences, FiniteSets, TLC

\* Python's None where a number is expected: a value no number of the model takes
None == -1000
\* user_preferences is None (or {}), and the result before the return
Absent == <<>>

\* ---------------------------------------------------------------- bounds
MaxTasks == 2
MaxHoursPerDay == 2
MaxStartDate == 1
MaxPrioTasks == 2
MaxRanking == 2
MaxPipeTasks == 2
MaxInvocations == 2

\* ------------------------------------------------------------ fixed point
Scale == 10 * 20 * 20 * 20
Tenth == Scale \div 10
\* the threshold set a quarter of an hour too low
HalfQuarter == Scale \div 4
\* the threshold set at 0.05 hours
FloorTenth == Tenth \div 2
Half == Scale \div 2

Hours(tenths) == tenths * Tenth

Min2(a, b) == IF a <= b THEN a ELSE b
Min3(a, b, c) == Min2(a, Min2(b, c))

\* integer division in place of math.ceil
CeilFloor(a, b) == a \div b
\* a plan of at least one day
CeilAtLeastOne(a, b) == IF a <= 0 THEN 1 ELSE -((-a) \div b)

\* math.ceil(a / b) for b > 0
Ceil(a, b) == -((-a) \div b)

\* x * (n / d) rounded to the nearest unit
MulRound(x, n, d) == (2 * x * n + d) \div (2 * d)

\* round(x, 1): the candidates, in tenths of an hour
Round1(x) ==
    LET q == x \div Tenth
        r == x % Tenth
    IN  IF 2 * r < Tenth THEN {q}
        ELSE IF 2 * r > Tenth THEN {q + 1}
        ELSE {q, q + 1}

\* ---------------------------------------------------------------- state
VARIABLES
    tasks,                  \* the tasks argument (list of dicts)
    study_hours_per_day,    \* the study_hours_per_day argument
    start_date,             \* start date (day number, midnight)
    user_preferences,       \* the user_preferences argument: Absent or <<dict>>
    pc,                     \* position in smart_schedule_sessions
    total_hours_needed,
    days_needed,
    warning,
    needs_more_hours,
    adjusted_hours_per_day,
    task_pool,
    schedule,
    day_num,
    day_hours_allocated,
    day_sessions,
    result,                 \* <<the returned dict>>, Absent before the return
    p_tasks,                \* PrioritizationAgent.process: input_data["tasks"]
    p_pc,                   \* position in PrioritizationAgent.process
    llm_result,             \* what llm_service.prioritize_tasks returned
    rule_based,             \* the list _rule_based_prioritization returned
    combined,               \* the list _combine_prioritizations builds
    final_priorities,       \* what _combine_prioritizations returned
    response,               \* <<data of the AgentResponse>>, Absent before
    w_task,                 \* WorkloadPredictionAgent.process: input_data["task"]
    use_hybrid,             \* input_data["use_hybrid"]
    is_trained,             \* ml_service.is_trained
    w_pc,                   \* position in WorkloadPredictionAgent.process
    llm_analysis,           \* <<what _llm_predict returned>>, Absent before
    ml_prediction,          \* ml_prediction["estimated_hours"], None if unbound
    llm_weight,             \* _combine_predictions: llm_weight
    ml_weight,              \* _combine_predictions: ml_weight
    combined_hours,         \* _combine_predictions: combined_hours
    final_prediction,       \* <<the prediction process returns>>, Absent before
    w_confidence,           \* process: confidence
    w_response,             \* <<the AgentResponse of process>>, Absent before
    pl_pc,                  \* position in _workflow_full_pipeline
    pl_text,                \* input_data["text"]
    parse_response,         \* <<AgentResponse>> of the parsing stage
    pl_tasks,               \* _workflow_full_pipeline: tasks
    pl_index,               \* tasks the loop of stage 2 has taken
    enriched_tasks,
    predict_response,       \* <<AgentResponse>> of the last estimation
    priority_response,
    schedule_response,
    results,                \* <<the dict the workflow builds>>, Absent before
    call_log,               \* the stage calls issued and returned, in order
    context,                \* orchestrator_agent.context, the shared dict
    user_context,           \* per invocation: the caller's user_context
    iso_pc,                 \* per invocation: position in execute_workflow
    stage_context,          \* per invocation: <<the context _enrich_task read>>
    out_tasks               \* per invocation: the tasks returned

schedVars == <<tasks, study_hours_per_day, start_date, user_preferences, pc,
               total_hours_needed, days_needed, warning, needs_more_hours,
               adjusted_hours_per_day, task_pool, schedule, day_num,
               day_hours_allocated, day_sessions, result>>

prioVars == <<p_tasks, p_pc, llm_result, rule_based, combined,
              final_priorities, response>>

workVars == <<w_task, use_hybrid, is_trained, w_pc, llm_analysis,
              ml_prediction, llm_weight, ml_weight, combined_hours,
              final_prediction, w_confidence, w_response>>

pipeVars == <<pl_pc, pl_text, parse_response, pl_tasks, pl_index,
              enriched_tasks, predict_response, priority_response,
              schedule_response, results, call_log>>

isoVars == <<context, user_context, iso_pc, stage_context, out_tasks>>

vars == <<schedVars, prioVars, workVars, pipeVars, isoVars>>

\* what the scheduler, the prioritization agent and the workload agent
\* leave alone
outsideSched == <<prioVars, workVars, pipeVars, isoVars>>
outsidePrio == <<schedVars, workVars, pipeVars, isoVars>>
outsideWork == <<schedVars, prioVars, pipeVars, isoVars>>
outsidePipe == <<schedVars, isoVars>>
outsideIso == <<schedVars, prioVars, workVars, pipeVars>>

\* the scheduler is not running
SchedIdle ==
    /\ tasks = <<>>
    /\ study_hours_per_day = 1
    /\ start_date = 0
    /\ user_preferences = Absent
    /\ pc = "idle"
    /\ total_hours_needed = 0
    /\ days_needed = 0
    /\ warning = None
    /\ needs_more_hours = FALSE
    /\ adjusted_hours_per_day = 0
    /\ task_pool = <<>>
    /\ schedule = <<>>
    /\ day_num = 0
    /\ day_hours_allocated = 0
    /\ day_sessions = <<>>
    /\ result = Absent

\* the prioritization agent is not running
PrioIdle ==
    /\ p_tasks = <<>>
    /\ p_pc = "idle"
    /\ llm_result = Absent
    /\ rule_based = <<>>
    /\ combined = <<>>
    /\ final_priorities = <<>>
    /\ response = Absent

\* the workload prediction agent is not running
WorkIdle ==
    /\ w_task = Absent
    /\ use_hybrid = TRUE
    /\ is_trained = FALSE
    /\ w_pc = "idle"
    /\ llm_analysis = Absent
    /\ ml_prediction = None
    /\ llm_weight = None
    /\ ml_weight = None
    /\ combined_hours = None
    /\ final_prediction = Absent
    /\ w_confidence = None
    /\ w_response = Absent

\* no FullPipeline workflow is running
PipeIdle ==
    /\ pl_pc = "idle"
    /\ pl_text = ""
    /\ parse_response = Absent
    /\ pl_tasks = <<>>
    /\ pl_index = 0
    /\ enriched_tasks = <<>>
    /\ predict_response = Absent
    /\ priority_response = Absent
    /\ schedule_response = Absent
    /\ results = Absent
    /\ call_log = <<>>

\* the context dict of a fresh orchestrator: {}
EmptyContext == [user_id |-> None, course_id |-> None]

\* no invocation of execute_workflow is under way
IsoIdle ==
    /\ context = EmptyContext
    /\ user_context = <<>>
    /\ iso_pc = <<>>
    /\ stage_context = <<>>
    /\ out_tasks = <<>>

\* ------------------------------------------------- scheduler: the inputs
\* t.get('priority_score', 5), in tenths
DefaultPriority == 50
\* t.get('predicted_hours', 2), in tenths of an hour
DefaultPredictedHours == 20

PrioritySet == {None, 90}
PredictedHoursSet == {0, 12, 20}
DueDateSet == {None, 1}

TaskRecords ==
    [priority_score : PrioritySet, predicted_hours : PredictedHoursSet,
     due_date : DueDateSet]

WithIds(ts) == [i \in 1..Len(ts) |->
    [id |-> i, priority_score |-> ts[i].priority_score,
     predicted_hours |-> ts[i].predicted_hours, due_date |-> ts[i].due_date]]

TaskLists ==
    UNION {{WithIds(ts) : ts \in [1..n -> TaskRecords]} : n \in 0..MaxTasks}

PreferenceSet ==
    {Absent} \cup
    {<<p>> : p \in
    [recommended_session_length : {None, 4, 30},
     prefers_pomodoro : BOOLEAN,
     estimation_bias : {None, 8, 12}]}

\* The scenario of the specification's section 8: A (0.9, 5h, due in 2 days),
\* B (0.5, 3h, due in 10 days), C (0.2, 2h, no due date), 4 hours per day.
ScenarioTasks ==
    << [id |-> 1, priority_score |-> 5, predicted_hours |-> 30, due_date |-> 10],
       [id |-> 2, priority_score |-> 2, predicted_hours |-> 20, due_date |-> None],
       [id |-> 3, priority_score |-> 9, predicted_hours |-> 50, due_date |-> 2] >>
ScenarioHoursPerDay == 4

\* a task that carries neither priority_score nor predicted_hours
BareTasks ==
    << [id |-> 1, priority_score |-> None, predicted_hours |-> None, due_date |-> None],
       [id |-> 2, priority_score |-> 90, predicted_hours |-> 12, due_date |-> 3] >>
BareHoursPerDay == 1

\* 20 hours due in 2 days at 5 hours per day
TwentyHourTasks ==
    << [id |-> 1, priority_score |-> 9, predicted_hours |-> 200, due_date |-> 2] >>
TwentyHourHoursPerDay == 5

\* preferences that recommend sessions of length 0
ZeroLengthPreferences ==
    << [recommended_session_length |-> 0, prefers_pomodoro |-> FALSE,
        estimation_bias |-> None] >>

\* ------------------------------------------------ scheduler: the helpers
PriorityOf(t) ==
    IF t.priority_score = None THEN DefaultPriority ELSE t.priority_score

\* t.get('predicted_hours') or 2: zero hours taken for a missing value
PredictedHoursOrDefault(t) ==
    Hours(IF t.predicted_hours = None \/ t.predicted_hours = 0
          THEN DefaultPredictedHours ELSE t.predicted_hours)

PredictedHoursOf(t) ==
    Hours(IF t.predicted_hours = None THEN DefaultPredictedHours
          ELSE t.predicted_hours)

\* the sort key without the minus sign: ascending priority
KeyLessAscending(a, b) ==
    \/ PriorityOf(a) < PriorityOf(b)
    \/ /\ PriorityOf(a) = PriorityOf(b)
       /\ a.due_date # None
       /\ (b.due_date = None \/ a.due_date < b.due_date)

\* the sort key (-priority_score, due date or datetime.max) of a precedes b's
KeyLess(a, b) ==
    \/ PriorityOf(a) > PriorityOf(b)
    \/ /\ PriorityOf(a) = PriorityOf(b)
       /\ a.due_date # None
       /\ (b.due_date = None \/ a.due_date < b.due_date)

\* sorted(tasks, key=...): a stable sort
RECURSIVE InsertSorted(_, _)
InsertSorted(t, s) ==
    IF s = <<>> THEN <<t>>
    ELSE IF KeyLess(t, Head(s)) THEN <<t>> \o s
    ELSE <<Head(s)>> \o InsertSorted(t, Tail(s))

RECURSIVE SortedTasks(_)
SortedTasks(ts) ==
    IF ts = <<>> THEN <<>>
    ELSE InsertSorted(ts[Len(ts)], SortedTasks(SubSeq(ts, 1, Len(ts) - 1)))

\* the caller's list after tasks.sort(key=...), a sort in place
InputSortedInPlace(ts) == SortedTasks(ts)

\* the caller's list after sorted(tasks, key=...) of line 80, which builds a
\* new list
InputAfterSorted(ts) == ts

RECURSIVE SumPredicted(_)
SumPredicted(ts) ==
    IF ts = <<>> THEN 0 ELSE PredictedHoursOf(Head(ts)) + SumPredicted(Tail(ts))

DueDates(ts) == {ts[i].due_date : i \in 1..Len(ts)} \ {None}

\* the latest due date in place of the earliest
LatestDue(ts) ==
    IF DueDates(ts) = {} THEN None
    ELSE CHOOSE d \in DueDates(ts) : \A e \in DueDates(ts) : d >= e

\* the earliest due date, None when no task has one
EarliestDue(ts) ==
    IF DueDates(ts) = {} THEN None
    ELSE CHOOSE d \in DueDates(ts) : \A e \in DueDates(ts) : d <= e

\* min_hours_per_day >= study_hours_per_day in place of >
InfeasibleAtPace(ts, hpd, start) ==
    /\ EarliestDue(ts) # None
    /\ EarliestDue(ts) - start > 0
    /\ SumPredicted(ts) >= hpd * Scale * (EarliestDue(ts) - start)

\* the due day counted as a day of work
InfeasibleCountingDueDay(ts, hpd, start) ==
    /\ EarliestDue(ts) # None
    /\ EarliestDue(ts) - start > 0
    /\ SumPredicted(ts) > hpd * Scale * (EarliestDue(ts) - start + 1)

\* whether the deadline forces more hours per day (lines 123-127)
Infeasible(ts, hpd, start) ==
    /\ EarliestDue(ts) # None
    /\ EarliestDue(ts) - start > 0
    /\ SumPredicted(ts) > hpd * Scale * (EarliestDue(ts) - start)

InitialPool(ts) == [i \in 1..Len(ts) |->
    [task |-> ts[i], remaining_hours |-> PredictedHoursOf(ts[i]),
     priority |-> PriorityOf(ts[i])]]

AnyRemaining(pool) == \E i \in 1..Len(pool) : pool[i].remaining_hours > 0

\* index in the pool of available_tasks[0]
FirstAvailable(pool) ==
    CHOOSE i \in 1..Len(pool) :
        /\ pool[i].remaining_hours > 0
        /\ \A j \in 1..(i - 1) : pool[j].remaining_hours <= 0

\* the cap without the prefers_pomodoro limit
MaxSessionLengthLong(prefs) ==
    IF prefs = Absent THEN Hours(20)
    ELSE IF prefs[1].recommended_session_length = None THEN Hours(20)
    ELSE Hours(prefs[1].recommended_session_length)

\* max_session_length (lines 165-171)
MaxSessionLength(prefs) ==
    IF prefs = Absent THEN Hours(20)
    ELSE LET len == IF prefs[1].recommended_session_length = None THEN Hours(20)
                    ELSE Hours(prefs[1].recommended_session_length)
         IN  IF prefs[1].prefers_pomodoro THEN Min2(len, Hours(15)) ELSE len

\* the estimation bias correction (lines 181-186)
BiasCorrected(prefs, hours) ==
    IF prefs = Absent THEN hours
    ELSE IF prefs[1].estimation_bias = None THEN hours
    ELSE IF prefs[1].estimation_bias < 9 THEN MulRound(hours, 11, 10)
    ELSE IF prefs[1].estimation_bias > 11 THEN MulRound(hours, 19, 20)
    ELSE hours

\* session_hours of the iteration about to run (lines 173-186)
SessionHours ==
    BiasCorrected(user_preferences,
        Min3(MaxSessionLength(user_preferences),
             task_pool[FirstAvailable(task_pool)].remaining_hours,
             adjusted_hours_per_day * Scale - day_hours_allocated))

\* the scheduled entry left at its place in the pool
RotateInPlace(pool, i, hours) ==
    [pool EXCEPT ![i].remaining_hours = @ - hours]

\* task_pool.remove(x); task_pool.append(x), with x's remaining_hours reduced
Rotate(pool, i, hours) ==
    SubSeq(pool, 1, i - 1) \o SubSeq(pool, i + 1, Len(pool)) \o
    << [pool[i] EXCEPT !.remaining_hours = @ - hours] >>

WhileCondition ==
    /\ day_hours_allocated < adjusted_hours_per_day * Scale
    /\ AnyRemaining(task_pool)

\* --------------------------------------------------- scheduler: the steps
SchedInit ==
    /\ \/ /\ tasks \in TaskLists
          /\ study_hours_per_day \in 1..MaxHoursPerDay
          /\ user_preferences \in PreferenceSet
          /\ start_date \in 0..MaxStartDate
       \/ /\ tasks = ScenarioTasks
          /\ study_hours_per_day = ScenarioHoursPerDay
          /\ user_preferences = Absent
          /\ start_date = 0
       \/ /\ tasks = BareTasks
          /\ study_hours_per_day = BareHoursPerDay
          /\ user_preferences = Absent
          /\ start_date = 0
       \/ /\ tasks = TwentyHourTasks
          /\ study_hours_per_day = TwentyHourHoursPerDay
          /\ user_preferences = Absent
          /\ start_date = 0
       \/ /\ tasks = BareTasks
          /\ study_hours_per_day = BareHoursPerDay
          /\ user_preferences = ZeroLengthPreferences
          /\ start_date = 0
    /\ pc = "call"
    /\ total_hours_needed = 0
    /\ days_needed = 0
    /\ warning = None
    /\ needs_more_hours = FALSE
    /\ adjusted_hours_per_day = 0
    /\ task_pool = <<>>
    /\ schedule = <<>>
    /\ day_num = 0
    /\ day_hours_allocated = 0
    /\ day_sessions = <<>>
    /\ result = Absent
    /\ PrioIdle
    /\ WorkIdle
    /\ PipeIdle
    /\ IsoIdle

\* lines 79-146: sort, totals, feasibility check, the task pool
Begin ==
    /\ pc = "call"
    /\ LET sorted_tasks == SortedTasks(tasks)
           total == SumPredicted(sorted_tasks)
           hard == Infeasible(sorted_tasks, study_hours_per_day, start_date)
           days_until_due == EarliestDue(sorted_tasks) - start_date
       IN  /\ total_hours_needed' = total
           /\ needs_more_hours' = hard
           /\ adjusted_hours_per_day' =
                IF hard THEN Ceil(total, days_until_due * Scale)
                ELSE study_hours_per_day
           /\ warning' =
                IF hard THEN Ceil(total, days_until_due * Scale) ELSE None
           /\ days_needed' =
                IF hard THEN days_until_due
                ELSE Ceil(total, study_hours_per_day * Scale)
           /\ task_pool' = InitialPool(sorted_tasks)
    /\ schedule' = <<>>
    /\ day_num' = 0
    /\ pc' = "for"
    /\ tasks' = InputAfterSorted(tasks)
    /\ UNCHANGED <<study_hours_per_day, start_date, user_preferences,
                   day_hours_allocated, day_sessions, result>>
    /\ UNCHANGED outsideSched

\* lines 148-152: the next day of the for loop
DayStart ==
    /\ pc = "for"
    /\ day_num < days_needed
    /\ day_hours_allocated' = 0
    /\ day_sessions' = <<>>
    /\ pc' = "while"
    /\ UNCHANGED <<tasks, study_hours_per_day, start_date, user_preferences,
                   total_hours_needed, days_needed, warning, needs_more_hours,
                   adjusted_hours_per_day, task_pool, schedule, day_num,
                   result>>
    /\ UNCHANGED outsideSched

\* lines 155-208: one iteration of the while loop that creates a session
Allocate ==
    /\ pc = "while"
    /\ WhileCondition
    /\ SessionHours >= Half
    /\ LET i == FirstAvailable(task_pool)
           session_hours == SessionHours
       IN  /\ \E rounded \in Round1(session_hours) :
                day_sessions' = Append(day_sessions,
                    [id |-> Len(schedule),
                     task_id |-> task_pool[i].task.id,
                     day |-> start_date + day_num,
                     priority |-> task_pool[i].priority,
                     estimated_hours |-> rounded])
           /\ task_pool' = Rotate(task_pool, i, session_hours)
           /\ day_hours_allocated' = day_hours_allocated + session_hours
    /\ UNCHANGED <<tasks, study_hours_per_day, start_date, user_preferences,
                   pc, total_hours_needed, days_needed, warning,
                   needs_more_hours, adjusted_hours_per_day, schedule,
                   day_num, result>>
    /\ UNCHANGED outsideSched

\* line 210, reached when the while loop ends
EndOfDay ==
    /\ schedule' = schedule \o day_sessions
    /\ day_num' = day_num + 1
    /\ pc' = "for"
    /\ UNCHANGED <<tasks, study_hours_per_day, start_date, user_preferences,
                   total_hours_needed, days_needed, warning, needs_more_hours,
                   adjusted_hours_per_day, task_pool, day_hours_allocated,
                   day_sessions, result>>
    /\ UNCHANGED outsideSched

\* lines 188-189: the session would be shorter than half an hour
BreakSmall ==
    /\ pc = "while"
    /\ WhileCondition
    /\ SessionHours < Half
    /\ EndOfDay

\* line 155: the budget of the day is used up or no task has hours left
WhileExit ==
    /\ pc = "while"
    /\ ~WhileCondition
    /\ EndOfDay

\* lines 212-219
Return ==
    /\ pc = "for"
    /\ day_num >= days_needed
    /\ result' = << [sessions |-> schedule,
                  total_hours |-> total_hours_needed,
                  days_planned |-> days_needed,
                  warning |-> warning,
                  needs_more_hours |-> needs_more_hours,
                  adjusted_hours_per_day |-> adjusted_hours_per_day] >>
    /\ pc' = "done"
    /\ UNCHANGED <<tasks, study_hours_per_day, start_date, user_preferences,
                   total_hours_needed, days_needed, warning, needs_more_hours,
                   adjusted_hours_per_day, task_pool, schedule, day_num,
                   day_hours_allocated, day_sessions>>
    /\ UNCHANGED outsideSched

SchedNext ==
    \/ Begin
    \/ DayStart
    \/ Allocate
    \/ BreakSmall
    \/ WhileExit
    \/ Return

SchedSpec == SchedInit /\ [][SchedNext]_vars

\* =========================================================================
\* PrioritizationAgent.  Scores are in millionths; grade_percentage is a
\* whole percentage, stress_score and estimated_hours are in tenths, and a
\* due date is given as the whole days from now until it, (due - now).days.
\* =========================================================================
Million == 1000 * 1000

\* task.get("grade_percentage", 10)
DefaultGrade == 10
\* task.get("stress_score", 0.5), in tenths
DefaultStress == 5
\* task.get("estimated_hours", 3), in tenths of an hour
DefaultEstimatedHours == 30

PrioTaskRecords ==
    [due_in : {None, -1, 5}, grade_percentage : {0, 100},
     stress_score : {0, 10}, estimated_hours : {0, 250}]

\* a task that carries only a title, and one due in two weeks
BarePrioTasks ==
    << [id |-> 1, due_in |-> None, grade_percentage |-> None,
        stress_score |-> None, estimated_hours |-> None],
       [id |-> 2, due_in |-> 14, grade_percentage |-> 25,
        stress_score |-> 7, estimated_hours |-> 45] >>

PrioWithIds(ts) == [i \in 1..Len(ts) |->
    [id |-> i, due_in |-> ts[i].due_in,
     grade_percentage |-> ts[i].grade_percentage,
     stress_score |-> ts[i].stress_score,
     estimated_hours |-> ts[i].estimated_hours]]

PrioTaskLists ==
    UNION {{PrioWithIds(ts) : ts \in [1..n -> PrioTaskRecords]} : n \in 0..MaxPrioTasks}

\* what the Ranking Advisor can return for the tasks: the error marker, or
\* a list of ids; id 0 is the id of no task
LLMResults(ts) ==
    {[error |-> TRUE, priorities |-> <<>>]} \cup
    {[error |-> FALSE, priorities |-> r] :
        r \in UNION {[1..n -> 0..Len(ts)] : n \in 0..MaxRanking}}

\* _calculate_urgency, in hundredths
CalculateUrgency(due_in) ==
    IF due_in = None THEN 30
    ELSE IF due_in < 0 THEN 100
    ELSE IF due_in <= 1 THEN 95
    ELSE IF due_in <= 3 THEN 85
    ELSE IF due_in <= 7 THEN 70
    ELSE IF due_in <= 14 THEN 50
    ELSE 30

GradeOf(t) == IF t.grade_percentage = None THEN DefaultGrade ELSE t.grade_percentage
StressOf(t) == IF t.stress_score = None THEN DefaultStress ELSE t.stress_score
EstimatedHoursOf(t) ==
    IF t.estimated_hours = None THEN DefaultEstimatedHours ELSE t.estimated_hours

\* min(hours / 20.0, 1.0), in millionths
HoursFactor(t) == Min2(EstimatedHoursOf(t) * 5000, Million)

\* _calculate_priority_score, in millionths
CalculatePriorityScore(t) ==
    Min2(  (CalculateUrgency(t.due_in) * 10000 * 4) \div 10
         + (GradeOf(t) * 10000 * 3) \div 10
         + (StressOf(t) * 100000 * 2) \div 10
         + HoursFactor(t) \div 10,
         Million)

\* _get_priority_factors: urgency, importance, stress, effort in millionths
GetPriorityFactors(t) ==
    << CalculateUrgency(t.due_in) * 10000, GradeOf(t) * 10000,
       StressOf(t) * 100000, HoursFactor(t) >>

RuleEntry(t) ==
    [task_id |-> t.id, priority_score |-> CalculatePriorityScore(t),
     rank |-> None, factors |-> GetPriorityFactors(t)]

\* list.sort(key=priority_score, reverse=True): descending.  The scores are
\* unrounded floats, so two scores that are equal as decimals may compare
\* either way; the model allows every descending order of the entries.
\* the sort without reverse=True
Ascending(es) ==
    \A k \in 1..(Len(es) - 1) : es[k].priority_score <= es[k + 1].priority_score

Descending(es) ==
    \A k \in 1..(Len(es) - 1) : es[k].priority_score >= es[k + 1].priority_score

Reorderings(es) ==
    {[k \in 1..Len(es) |-> es[f[k]]] :
        f \in {g \in [1..Len(es) -> 1..Len(es)] :
                  \A a, b \in 1..Len(es) : a # b => g[a] # g[b]}}

SortByScore(es) == {o \in Reorderings(es) : Descending(o)}

\* _rule_based_prioritization: the lists it can return
RuleBasedPrioritization(ts) ==
    SortByScore([i \in 1..Len(ts) |-> RuleEntry(ts[i])])

\* next((r for r in rule_based if r["task_id"] == task_id), None):
\* the index of the first match, 0 when there is none
RuleItem(rules, task_id) ==
    IF \E k \in 1..Len(rules) : rules[k].task_id = task_id
    THEN CHOOSE k \in 1..Len(rules) :
            /\ rules[k].task_id = task_id
            /\ \A j \in 1..(k - 1) : rules[j].task_id # task_id
    ELSE 0

\* the rule-based score added without its 0.3 weight
FinalScoreUnweighted(i, n, rule_score) ==
    7 * Million * (n - i) + 10 * rule_score * n

\* the two weights exchanged: 0.3 * (1 - i/n) + 0.7 * rule score
FinalScoreSwapped(i, n, rule_score) ==
    3 * Million * (n - i) + 7 * rule_score * n

\* final_score of position i (0-based) of n, as the numerator of a fraction
\* over FinalScoreDen(n) millionths: 0.7 * (1 - i/n) + 0.3 * rule score
FinalScoreNum(i, n, rule_score) ==
    7 * Million * (n - i) + 3 * rule_score * n

\* the same without a rule-based entry: 0.7 * (1 - i/n)
RankOnlyNum(i, n) == 7 * Million * (n - i)

FinalScoreDen(n) == 10 * n

\* round(num / den millionths, 3): the candidates, in millionths
Round3(num, den) ==
    LET q == num \div (1000 * den)
        r == num % (1000 * den)
    IN  IF 2 * r < 1000 * den THEN {1000 * q}
        ELSE IF 2 * r > 1000 * den THEN {1000 * (q + 1)}
        ELSE {1000 * q, 1000 * (q + 1)}

\* sum(1 for p in final_priorities if p["priority_score"] > 0.7): the
\* counts it can give; an unrounded score that equals 0.7 as a decimal may
\* lie on either side of the float 0.7
HighPriorityCount(ps) ==
    LET above == {k \in 1..Len(ps) : 10 * ps[k].priority_score > 7 * Million}
        at == {k \in 1..Len(ps) : /\ 10 * ps[k].priority_score = 7 * Million
                                  /\ ps[k].rank = None}
    IN  Cardinality(above) .. (Cardinality(above) + Cardinality(at))

PrioInit ==
    /\ SchedIdle
    /\ WorkIdle
    /\ PipeIdle
    /\ IsoIdle
    /\ p_tasks \in PrioTaskLists \cup {BarePrioTasks}
    /\ p_pc = "call"
    /\ llm_result = Absent
    /\ rule_based = <<>>
    /\ combined = <<>>
    /\ final_priorities = <<>>
    /\ response = Absent

\* process, lines 42-47: no tasks
ProcessEmpty ==
    /\ p_pc = "call"
    /\ p_tasks = <<>>
    /\ response' = << [priorities |-> <<>>, high_priority_count |-> 0] >>
    /\ p_pc' = "done"
    /\ UNCHANGED <<p_tasks, llm_result, rule_based, combined, final_priorities>>
    /\ UNCHANGED outsidePrio

\* process, line 50: llm_service.prioritize_tasks returns
CallLLM ==
    /\ p_pc = "call"
    /\ p_tasks # <<>>
    /\ \E r \in LLMResults(p_tasks) : llm_result' = <<r>>
    /\ p_pc' = "rule"
    /\ UNCHANGED <<p_tasks, rule_based, combined, final_priorities, response>>
    /\ UNCHANGED outsidePrio

\* process, line 53
RuleBased ==
    /\ p_pc = "rule"
    /\ rule_based' \in RuleBasedPrioritization(p_tasks)
    /\ p_pc' = "combine"
    /\ UNCHANGED <<p_tasks, llm_result, combined, final_priorities, response>>
    /\ UNCHANGED outsidePrio

\* _combine_prioritizations, lines 160-161: the LLM failed
CombineFallback ==
    /\ p_pc = "combine"
    /\ llm_result[1].error
    /\ final_priorities' = rule_based
    /\ p_pc' = "respond"
    /\ UNCHANGED <<p_tasks, llm_result, rule_based, combined, response>>
    /\ UNCHANGED outsidePrio

\* _combine_prioritizations, lines 168-192: one iteration of the loop
CombineStep ==
    /\ p_pc = "combine"
    /\ ~llm_result[1].error
    /\ Len(combined) < Len(llm_result[1].priorities)
    /\ LET llm_priorities == llm_result[1].priorities
           n == Len(llm_priorities)
           i == Len(combined)
           task_id == llm_priorities[i + 1]
           k == RuleItem(rule_based, task_id)
           num == IF k # 0
                  THEN FinalScoreNum(i, n, rule_based[k].priority_score)
                  ELSE RankOnlyNum(i, n)
       IN  \E rounded \in Round3(num, FinalScoreDen(n)) :
             combined' = Append(combined,
                 [task_id |-> task_id,
                  priority_score |-> rounded,
                  rank |-> i + 1,
                  factors |-> IF k # 0 THEN rule_based[k].factors ELSE <<>>])
    /\ UNCHANGED <<p_tasks, p_pc, llm_result, rule_based, final_priorities,
                   response>>
    /\ UNCHANGED outsidePrio

\* _combine_prioritizations, line 194
CombineReturn ==
    /\ p_pc = "combine"
    /\ ~llm_result[1].error
    /\ Len(combined) = Len(llm_result[1].priorities)
    /\ final_priorities' = combined
    /\ p_pc' = "respond"
    /\ UNCHANGED <<p_tasks, llm_result, rule_based, combined, response>>
    /\ UNCHANGED outsidePrio

\* process, lines 62-74
Respond ==
    /\ p_pc = "respond"
    /\ \E count \in HighPriorityCount(final_priorities) :
         response' = << [priorities |-> final_priorities,
                         high_priority_count |-> count] >>
    /\ p_pc' = "done"
    /\ UNCHANGED <<p_tasks, llm_result, rule_based, combined, final_priorities>>
    /\ UNCHANGED outsidePrio

PrioNext ==
    \/ ProcessEmpty
    \/ CallLLM
    \/ RuleBased
    \/ CombineFallback
    \/ CombineStep
    \/ CombineReturn
    \/ Respond

PrioSpec == PrioInit /\ [][PrioNext]_vars

\* ------------------------------------------- workload prediction agent
\* Hours and stress are in hundredths, confidences in hundredths, the
\* fusion weights in thousandths; combined_hours, a product of hours and
\* weight, is in units of 1/100000 hour.
Thousand == 1000

\* the defaults of analyze_task_workload
DefaultHours == 300
DefaultStressScore == 50
DefaultLLMConfidence == 70
FailureConfidence == 30

\* what the LLM's JSON can hold: hours, stress, complexity and confidence;
\* a missing key takes the default.  A confidence is not clamped: 150 is
\* float("1.5").
LlmHoursSet == {50, 296, DefaultHours}
StressSet == {DefaultStressScore, 100}
ComplexitySet == {"medium", "high"}
ConfidenceSet == {0, FailureConfidence, DefaultLLMConfidence, 100, 150}

\* ml_service.predict_workload: max(0.5, min(prediction, 40.0))
MlHoursSet == {50, 298, 4000}

\* _calculate_stress_breakdown; the stress scores of the model are
\* multiples of 0.1, so the products need no rounding
CalculateStressBreakdown(stress_score) ==
    [time_pressure |-> Min2((stress_score * 4) \div 10, 40),
     complexity |-> Min2((stress_score * 3) \div 10, 30),
     importance |-> Min2((stress_score * 3) \div 10, 30),
     total |-> stress_score]

\* analyze_task_workload, lines 61-67: the normalised answers
AnalysisAnswers ==
    [estimated_hours : LlmHoursSet, stress_score : StressSet,
     complexity : ComplexitySet, explanation : {<<"analysis">>},
     confidence : ConfidenceSet]

\* analyze_task_workload, lines 69-78: the call or the parsing raised
AnalysisDefaults ==
    [estimated_hours |-> DefaultHours, stress_score |-> DefaultStressScore,
     complexity |-> "medium",
     explanation |-> <<"Error in analysis, using default estimates">>,
     confidence |-> FailureConfidence]

\* the answer the model lets the LLM give about a task of a pipeline run
ParsedTaskAnswer ==
    [estimated_hours |-> 50, stress_score |-> 100, complexity |-> "high",
     explanation |-> <<"analysis">>, confidence |-> 100]

\* the task a direct call of the agent is about, and a task of a pipeline
EssayTask == [title |-> "essay"]
ParsedTask == [title |-> "parsed"]

\* analyze_task_workload: what it can return for the task.  Every answer
\* is explored for the essay; a pipeline run explores one answer and the
\* failure for each of its tasks.
AnalyzeTaskWorkload(task) ==
    (IF task = EssayTask THEN AnalysisAnswers ELSE {ParsedTaskAnswer})
        \cup {AnalysisDefaults}

\* ml_service.predict_workload: what it can return for the task
PredictWorkload(task) == IF task = EssayTask THEN MlHoursSet ELSE {4000}

\* _llm_predict, lines 95-97: the analysis with its stress breakdown
WithBreakdown(a) ==
    [estimated_hours |-> a.estimated_hours, stress_score |-> a.stress_score,
     complexity |-> a.complexity, explanation |-> a.explanation,
     confidence |-> a.confidence,
     breakdown |-> CalculateStressBreakdown(a.stress_score)]

\* 0.3 + confidence * 0.7
LlmWeightWide(confidence) == 300 + 7 * confidence

\* line 133: llm_weight = 0.3 + (llm_confidence * 0.3)
LlmWeight(confidence) == 300 + 3 * confidence

\* line 134: ml_weight = 1.0 - llm_weight
MlWeight(weight) == Thousand - weight

\* line 136
CombinedHours(llm_hours, weight, ml_hours) ==
    llm_hours * weight + ml_hours * MlWeight(weight)

\* round(combined_hours, 1), in hundredths of an hour: the candidates
RoundCombined(x) ==
    LET tenth == 10 * Thousand
        q == x \div tenth
        r == x % tenth
    IN  IF 2 * r < tenth THEN {10 * q}
        ELSE IF 2 * r > tenth THEN {10 * (q + 1)}
        ELSE {10 * q, 10 * (q + 1)}

\* BaseAgent._create_response: a completed AgentResponse
CreateResponse(data, confidence, explanation, metadata) ==
    [status |-> "completed", data |-> data, confidence |-> confidence,
     explanation |-> explanation, metadata |-> metadata, error |-> Absent]

WorkInit ==
    /\ SchedIdle
    /\ PrioIdle
    /\ PipeIdle
    /\ IsoIdle
    /\ w_task \in {Absent, <<EssayTask>>}
    /\ use_hybrid \in BOOLEAN
    /\ is_trained \in BOOLEAN
    /\ w_pc = "start"
    /\ llm_analysis = Absent
    /\ ml_prediction = None
    /\ llm_weight = None
    /\ ml_weight = None
    /\ combined_hours = None
    /\ final_prediction = Absent
    /\ w_confidence = None
    /\ w_response = Absent

\* process, lines 43-48: no task
NoTask ==
    /\ w_pc = "start"
    /\ w_task = Absent
    /\ w_response' = << CreateResponse(Absent, 0, <<"No task provided">>,
                                       Absent) >>
    /\ w_pc' = "done"
    /\ UNCHANGED <<w_task, use_hybrid, is_trained, llm_analysis,
                   ml_prediction, llm_weight, ml_weight, combined_hours,
                   final_prediction, w_confidence>>
    /\ UNCHANGED outsideWork

\* process, line 51: _llm_predict returns
LLMPredict ==
    /\ w_pc = "start"
    /\ w_task # Absent
    /\ \E a \in AnalyzeTaskWorkload(w_task[1]) :
          llm_analysis' = << WithBreakdown(a) >>
    /\ w_pc' = "phase2"
    /\ UNCHANGED <<w_task, use_hybrid, is_trained, ml_prediction, llm_weight,
                   ml_weight, combined_hours, final_prediction, w_confidence,
                   w_response>>
    /\ UNCHANGED outsideWork

\* process, lines 54-55: _ml_calibrate returns
MLCalibrate ==
    /\ w_pc = "phase2"
    /\ use_hybrid /\ is_trained
    /\ ml_prediction' \in PredictWorkload(w_task[1])
    /\ w_pc' = "combine"
    /\ UNCHANGED <<w_task, use_hybrid, is_trained, llm_analysis, llm_weight,
                   ml_weight, combined_hours, final_prediction, w_confidence,
                   w_response>>
    /\ UNCHANGED outsideWork

\* process, lines 56-57: _combine_predictions and the hybrid confidence
CombinePredictions ==
    /\ w_pc = "combine"
    /\ LET llm == llm_analysis[1]
           weight == LlmWeight(llm.confidence)
           hours == CombinedHours(llm.estimated_hours, weight, ml_prediction)
       IN  /\ llm_weight' = weight
           /\ ml_weight' = MlWeight(weight)
           /\ combined_hours' = hours
           /\ \E rounded \in RoundCombined(hours) :
                final_prediction' =
                    << [estimated_hours |-> rounded,
                        stress_score |-> llm.stress_score,
                        complexity |-> llm.complexity,
                        explanation |-> Append(llm.explanation,
                                          "(Calibrated with historical data)"),
                        confidence |-> llm.confidence,
                        breakdown |-> llm.breakdown] >>
           /\ w_confidence' = (llm.confidence + 80) \div 2
    /\ w_pc' = "respond"
    /\ UNCHANGED <<w_task, use_hybrid, is_trained, llm_analysis,
                   ml_prediction, w_response>>
    /\ UNCHANGED outsideWork

\* process, lines 58-60: no calibration
LLMOnly ==
    /\ w_pc = "phase2"
    /\ ~(use_hybrid /\ is_trained)
    /\ final_prediction' = llm_analysis
    /\ w_confidence' = llm_analysis[1].confidence
    /\ w_pc' = "respond"
    /\ UNCHANGED <<w_task, use_hybrid, is_trained, llm_analysis,
                   ml_prediction, llm_weight, ml_weight, combined_hours,
                   w_response>>
    /\ UNCHANGED outsideWork

\* process, line 69: ml_prediction is read whenever use_hybrid is true
MlEstimateUnbound == use_hybrid /\ ml_prediction = None

\* process, lines 62-77: the response is built
WorkRespond ==
    /\ w_pc = "respond"
    /\ ~MlEstimateUnbound
    /\ w_response' =
         << CreateResponse(
              << [estimated_hours |-> final_prediction[1].estimated_hours,
                  stress_score |-> final_prediction[1].stress_score,
                  complexity |-> final_prediction[1].complexity,
                  breakdown |-> final_prediction[1].breakdown,
                  llm_estimate |-> llm_analysis[1].estimated_hours,
                  ml_estimate |-> IF use_hybrid THEN ml_prediction
                                  ELSE None] >>,
              w_confidence,
              final_prediction[1].explanation,
              << [method |-> IF use_hybrid /\ is_trained THEN "hybrid"
                             ELSE "llm_only",
                  llm_confidence |-> llm_analysis[1].confidence] >>) >>
    /\ w_pc' = "done"
    /\ UNCHANGED <<w_task, use_hybrid, is_trained, llm_analysis,
                   ml_prediction, llm_weight, ml_weight, combined_hours,
                   final_prediction, w_confidence>>
    /\ UNCHANGED outsideWork

\* process, line 69: ml_prediction was never assigned; the evaluation of
\* the dict raises UnboundLocalError and process returns nothing
WorkRaise ==
    /\ w_pc = "respond"
    /\ MlEstimateUnbound
    /\ w_pc' = "raised"
    /\ UNCHANGED <<w_task, use_hybrid, is_trained, llm_analysis,
                   ml_prediction, llm_weight, ml_weight, combined_hours,
                   final_prediction, w_confidence, w_response>>
    /\ UNCHANGED outsideWork

WorkNext ==
    \/ NoTask
    \/ LLMPredict
    \/ MLCalibrate
    \/ CombinePredictions
    \/ LLMOnly
    \/ WorkRespond
    \/ WorkRaise

WorkSpec == WorkInit /\ [][WorkNext]_vars

\* --------------------------------------------------- FullPipeline workflow
\* A task dict as the pipeline carries it.  None and Absent stand for a key
\* the dict does not have.  Only the keys a later stage reads are kept.
ParsedTaskRecord(i, due) ==
    [id |-> i, due_in |-> due, grade_percentage |-> None,
     estimated_hours |-> None, stress_score |-> None, complexity |-> Absent,
     priority_score |-> None, priority_rank |-> None]

PipeDueSet == {None, 1}

\* extract_tasks_from_text: a list of task dicts ([] when the call fails),
\* or a "tasks" array that holds something that is not a dict
Extractions ==
    {[malformed |-> TRUE, tasks |-> <<>>]} \cup
    UNION {{[malformed |-> FALSE,
             tasks |-> [i \in 1..n |-> ParsedTaskRecord(i, due[i])]] :
               due \in [1..n -> PipeDueSet]} : n \in 0..MaxPipeTasks}

\* _calculate_confidence for tasks with a title and a type, in hundredths
RECURSIVE FieldScores(_)
FieldScores(ts) ==
    IF ts = <<>> THEN 0
    ELSE (IF Head(ts).due_in = None THEN 50 ELSE 80) + FieldScores(Tail(ts))

CalculateConfidence(ts) ==
    IF ts = <<>> THEN 50 ELSE Min2(FieldScores(ts) \div Len(ts), 100)

\* BaseAgent._execute_with_error_handling when process raised: a response
\* with status ERROR that carries the error and no data
ErrorResponse(message) ==
    [status |-> "error", data |-> Absent, confidence |-> 0,
     explanation |-> <<>>, metadata |-> Absent, error |-> <<message>>]

\* TaskParsingAgent.process behind _execute_with_error_handling
ParseProcess(text, extraction) ==
    IF text = ""
    THEN CreateResponse(<< [tasks |-> <<>>] >>, 0,
                        <<"No text provided to parse">>, Absent)
    ELSE IF extraction.malformed
    THEN ErrorResponse("task.copy")
    ELSE CreateResponse(<< [tasks |-> extraction.tasks] >>,
                        CalculateConfidence(extraction.tasks),
                        <<"Extracted tasks">>, Absent)

\* response.data.get(key, default) for the keys the workflow reads
DataTasks(resp) == IF resp.data = Absent THEN <<>> ELSE resp.data[1].tasks

\* _format_error_response with the agent named "workflow"
FormatErrorResponseUnnamed(agent_name, resp) ==
    [success |-> FALSE, workflow |-> Absent, error |-> resp.error,
     agent |-> <<"workflow">>, stages |-> Absent, schedule |-> Absent,
     tasks |-> Absent, total_tasks |-> None]

\* _format_error_response
FormatErrorResponse(agent_name, resp) ==
    [success |-> FALSE, workflow |-> Absent, error |-> resp.error,
     agent |-> <<agent_name>>, stages |-> Absent, schedule |-> Absent,
     tasks |-> Absent, total_tasks |-> None]

NoStages ==
    [parsing |-> Absent, workload_prediction |-> Absent,
     prioritization |-> Absent, scheduling |-> Absent]

\* lines 287-291
InitialResults ==
    [success |-> TRUE, workflow |-> <<"full_pipeline">>, error |-> Absent,
     agent |-> Absent, stages |-> NoStages, schedule |-> Absent,
     tasks |-> Absent, total_tasks |-> None]

\* an entry of the stages dict: the success flag is the literal True
StageEntry(count) == << [success |-> TRUE, count |-> count] >>

LogEvent(stage, event, task, status) ==
    [stage |-> stage, event |-> event, task |-> task, status |-> status]

\* lines 320-324: task.update(...) with the data of a completed response
UpdateTask(task, resp) ==
    IF resp.data = Absent
    THEN [task EXCEPT !.estimated_hours = None, !.stress_score = None,
                      !.complexity = Absent]
    ELSE [task EXCEPT !.estimated_hours = resp.data[1].estimated_hours,
                      !.stress_score = resp.data[1].stress_score,
                      !.complexity = <<resp.data[1].complexity>>]

\* the task as the prioritization model reads it: hours and stress in
\* tenths
PrioView(t) ==
    [id |-> t.id, due_in |-> t.due_in,
     grade_percentage |-> t.grade_percentage,
     stress_score |-> IF t.stress_score = None THEN None
                      ELSE t.stress_score \div 10,
     estimated_hours |-> IF t.estimated_hours = None THEN None
                         ELSE t.estimated_hours \div 10]

\* the task joins enriched_tasks only when its estimation completed
AppendEnrichedIfCompleted(enriched, task, resp) ==
    IF resp.status = "completed" THEN Append(enriched, UpdateTask(task, resp))
    ELSE enriched

\* lines 319-326: the task, updated when the estimation completed, joins
\* enriched_tasks whatever the status of the response
AppendEnriched(enriched, task, resp) ==
    Append(enriched,
           IF resp.status = "completed" THEN UpdateTask(task, resp) ELSE task)

\* the loop of stage 2 leaves after the first task
EstimationDoneEarly == pl_index >= Min2(1, Len(pl_tasks))

\* line 313: the for loop has taken every task
EstimationDone == pl_index >= Len(pl_tasks)

\* line 344: priority_map[task_id], the index of the last entry with the
\* id, 0 when the id is not a key
PriorityMap(priorities, task_id) ==
    IF \E k \in 1..Len(priorities) : priorities[k].task_id = task_id
    THEN CHOOSE k \in 1..Len(priorities) :
            /\ priorities[k].task_id = task_id
            /\ \A j \in (k + 1)..Len(priorities) :
                  priorities[j].task_id # task_id
    ELSE 0

\* line 349: priority_map[task_id]["rank"] of an entry without that key
RankKeyError(priorities, ts) ==
    \E i \in 1..Len(ts) :
        /\ PriorityMap(priorities, ts[i].id) # 0
        /\ priorities[PriorityMap(priorities, ts[i].id)].rank = None

\* lines 345-349
AttachPriority(priorities, task) ==
    LET k == PriorityMap(priorities, task.id)
    IN  IF k = 0 THEN task
        ELSE [task EXCEPT !.priority_score = priorities[k].priority_score,
                          !.priority_rank = priorities[k].rank]

\* ScheduleOptimizationAgent behind _execute_with_error_handling: a
\* schedule of some days, or an error
ScheduleDaysSet == {0, 2}

ScheduleResponses ==
    {CreateResponse(<< [schedule |-> days] >>, 80, <<"schedule">>, Absent) :
        days \in ScheduleDaysSet}
    \cup {ErrorResponse("schedule")}

DataSchedule(resp) ==
    IF resp.data = Absent THEN 0 ELSE resp.data[1].schedule

PipeInit ==
    /\ SchedIdle
    /\ PrioIdle
    /\ IsoIdle
    /\ w_task = Absent
    /\ use_hybrid = TRUE
    /\ is_trained \in BOOLEAN
    /\ w_pc = "idle"
    /\ llm_analysis = Absent
    /\ ml_prediction = None
    /\ llm_weight = None
    /\ ml_weight = None
    /\ combined_hours = None
    /\ final_prediction = Absent
    /\ w_confidence = None
    /\ w_response = Absent
    /\ pl_pc = "start"
    /\ pl_text \in {"", "syllabus"}
    /\ parse_response = Absent
    /\ pl_tasks = <<>>
    /\ pl_index = 0
    /\ enriched_tasks = <<>>
    /\ predict_response = Absent
    /\ priority_response = Absent
    /\ schedule_response = Absent
    /\ results = Absent
    /\ call_log = <<>>

\* lines 287-298: the parsing stage is called
ParseCall ==
    /\ pl_pc = "start"
    /\ results' = << InitialResults >>
    /\ call_log' = Append(call_log, LogEvent("parse", "call", 0, "pending"))
    /\ pl_pc' = "parsing"
    /\ UNCHANGED <<pl_text, parse_response, pl_tasks, pl_index,
                   enriched_tasks, predict_response, priority_response,
                   schedule_response>>
    /\ UNCHANGED <<outsidePipe, prioVars, workVars>>

\* line 295: the parsing stage returns
ParseReturn ==
    /\ pl_pc = "parsing"
    /\ \E extraction \in Extractions :
         LET resp == ParseProcess(pl_text, extraction)
         IN  /\ parse_response' = <<resp>>
             /\ call_log' = Append(call_log,
                    LogEvent("parse", "return", 0, resp.status))
    /\ pl_pc' = "parsed"
    /\ UNCHANGED <<pl_text, pl_tasks, pl_index, enriched_tasks,
                   predict_response, priority_response, schedule_response,
                   results>>
    /\ UNCHANGED <<outsidePipe, prioVars, workVars>>

\* lines 300-301: the parsing stage failed
ParseFailed ==
    /\ pl_pc = "parsed"
    /\ parse_response[1].status = "error"
    /\ results' = << FormatErrorResponse("task_parsing", parse_response[1]) >>
    /\ pl_pc' = "done"
    /\ UNCHANGED <<pl_text, parse_response, pl_tasks, pl_index,
                   enriched_tasks, predict_response, priority_response,
                   schedule_response, call_log>>
    /\ UNCHANGED <<outsidePipe, prioVars, workVars>>

\* lines 303-311
ParseSucceeded ==
    /\ pl_pc = "parsed"
    /\ parse_response[1].status # "error"
    /\ pl_tasks' = DataTasks(parse_response[1])
    /\ results' = << [results[1] EXCEPT !.stages.parsing =
                         StageEntry(Len(DataTasks(parse_response[1])))] >>
    /\ enriched_tasks' = <<>>
    /\ pl_index' = 0
    /\ pl_pc' = "estimate"
    /\ UNCHANGED <<pl_text, parse_response, predict_response,
                   priority_response, schedule_response, call_log>>
    /\ UNCHANGED <<outsidePipe, prioVars, workVars>>

\* lines 313-317: the estimation of the next task is called, with
\* use_hybrid true; the agent starts with fresh locals
EstimateCall ==
    /\ pl_pc = "estimate"
    /\ ~EstimationDone
    /\ w_task' = << ParsedTask >>
    /\ use_hybrid' = TRUE
    /\ w_pc' = "start"
    /\ llm_analysis' = Absent
    /\ ml_prediction' = None
    /\ llm_weight' = None
    /\ ml_weight' = None
    /\ combined_hours' = None
    /\ final_prediction' = Absent
    /\ w_confidence' = None
    /\ w_response' = Absent
    /\ call_log' = Append(call_log,
           LogEvent("estimate", "call", pl_index + 1, "pending"))
    /\ pl_pc' = "estimating"
    /\ UNCHANGED is_trained
    /\ UNCHANGED <<pl_text, parse_response, pl_tasks, pl_index,
                   enriched_tasks, predict_response, priority_response,
                   schedule_response, results>>
    /\ UNCHANGED <<outsidePipe, prioVars>>

\* lines 314-326: the estimation returns (an ERROR response when process
\* raised), the task is updated and appended
EstimateReturn ==
    /\ pl_pc = "estimating"
    /\ w_pc \in {"done", "raised"}
    /\ LET resp == IF w_pc = "done" THEN w_response[1]
                   ELSE ErrorResponse("UnboundLocalError")
           task == pl_tasks[pl_index + 1]
       IN  /\ predict_response' = <<resp>>
           /\ enriched_tasks' = AppendEnriched(enriched_tasks, task, resp)
           /\ call_log' = Append(call_log,
                  LogEvent("estimate", "return", pl_index + 1, resp.status))
    /\ pl_index' = pl_index + 1
    /\ w_pc' = "idle"
    /\ pl_pc' = "estimate"
    /\ UNCHANGED <<w_task, use_hybrid, is_trained, llm_analysis,
                   ml_prediction, llm_weight, ml_weight, combined_hours,
                   final_prediction, w_confidence, w_response>>
    /\ UNCHANGED <<pl_text, parse_response, pl_tasks, priority_response,
                   schedule_response, results>>
    /\ UNCHANGED <<outsidePipe, prioVars>>

\* lines 328-338: the loop is over, the prioritization is called
PrioritizeCall ==
    /\ pl_pc = "estimate"
    /\ EstimationDone
    /\ results' = << [results[1] EXCEPT !.stages.workload_prediction =
                         StageEntry(Len(enriched_tasks))] >>
    /\ p_tasks' = [i \in 1..Len(enriched_tasks) |->
                      PrioView(enriched_tasks[i])]
    /\ p_pc' = "call"
    /\ call_log' = Append(call_log,
           LogEvent("prioritize", "call", 0, "pending"))
    /\ pl_pc' = "prioritizing"
    /\ UNCHANGED <<llm_result, rule_based, combined, final_priorities,
                   response>>
    /\ UNCHANGED <<pl_text, parse_response, pl_tasks, pl_index,
                   enriched_tasks, predict_response, priority_response,
                   schedule_response>>
    /\ UNCHANGED <<outsidePipe, workVars>>

\* line 335: the prioritization returns
PrioritizeReturn ==
    /\ pl_pc = "prioritizing"
    /\ p_pc = "done"
    /\ priority_response' =
           << CreateResponse(response, 85, <<"Tasks prioritized">>, Absent) >>
    /\ call_log' = Append(call_log,
           LogEvent("prioritize", "return", 0, "completed"))
    /\ p_pc' = "idle"
    /\ pl_pc' = "attach"
    /\ UNCHANGED <<p_tasks, llm_result, rule_based, combined,
                   final_priorities, response>>
    /\ UNCHANGED <<pl_text, parse_response, pl_tasks, pl_index,
                   enriched_tasks, predict_response, schedule_response,
                   results>>
    /\ UNCHANGED <<outsidePipe, workVars>>

\* lines 340-361: the priorities are attached and the scheduling is called
AttachPriorities ==
    /\ pl_pc = "attach"
    /\ LET data == priority_response[1].data[1]
       IN  /\ ~RankKeyError(data.priorities, enriched_tasks)
           /\ enriched_tasks' = [i \in 1..Len(enriched_tasks) |->
                  AttachPriority(data.priorities, enriched_tasks[i])]
           /\ results' = << [results[1] EXCEPT !.stages.prioritization =
                                StageEntry(data.high_priority_count)] >>
    /\ call_log' = Append(call_log,
           LogEvent("schedule", "call", 0, "pending"))
    /\ pl_pc' = "scheduling"
    /\ UNCHANGED <<pl_text, parse_response, pl_tasks, pl_index,
                   predict_response, priority_response, schedule_response>>
    /\ UNCHANGED <<outsidePipe, prioVars, workVars>>

\* line 349: an entry of the map has no "rank"; KeyError leaves the
\* workflow and execute_workflow, no result is returned
AttachRaise ==
    /\ pl_pc = "attach"
    /\ RankKeyError(priority_response[1].data[1].priorities, enriched_tasks)
    /\ pl_pc' = "raised"
    /\ UNCHANGED <<pl_text, parse_response, pl_tasks, pl_index,
                   enriched_tasks, predict_response, priority_response,
                   schedule_response, results, call_log>>
    /\ UNCHANGED <<outsidePipe, prioVars, workVars>>

\* lines 358-377: the scheduling returns and the result is completed
ScheduleReturn ==
    /\ pl_pc = "scheduling"
    /\ \E resp \in ScheduleResponses :
         /\ schedule_response' = <<resp>>
         /\ results' = << [results[1] EXCEPT
                !.schedule = IF resp.status = "completed"
                             THEN << DataSchedule(resp) >> ELSE Absent,
                !.stages.scheduling = StageEntry(DataSchedule(resp)),
                !.tasks = << enriched_tasks >>,
                !.total_tasks = Len(enriched_tasks)] >>
         /\ call_log' = Append(call_log,
                LogEvent("schedule", "return", 0, resp.status))
    /\ pl_pc' = "done"
    /\ UNCHANGED <<pl_text, parse_response, pl_tasks, pl_index,
                   enriched_tasks, predict_response, priority_response>>
    /\ UNCHANGED <<outsidePipe, prioVars, workVars>>

PipeNext ==
    \/ ParseCall
    \/ ParseReturn
    \/ ParseFailed
    \/ ParseSucceeded
    \/ EstimateCall
    \/ LLMPredict
    \/ MLCalibrate
    \/ CombinePredictions
    \/ LLMOnly
    \/ WorkRespond
    \/ WorkRaise
    \/ EstimateReturn
    \/ PrioritizeCall
    \/ ProcessEmpty
    \/ CallLLM
    \/ RuleBased
    \/ CombineFallback
    \/ CombineStep
    \/ CombineReturn
    \/ Respond
    \/ PrioritizeReturn
    \/ AttachPriorities
    \/ AttachRaise
    \/ ScheduleReturn

PipeSpec == PipeInit /\ [][PipeNext]_vars

\* ------------------------------------------- invocations of the workflow
\* The orchestrator is one module-level object; every request calls
\* execute_workflow on it.  An invocation runs without interruption up to
\* the await of the LLM call in TaskParsingAgent.process and is resumed
\* when that call returns.
Invocations == 1..MaxInvocations

\* the user_context dict the API builds for invocation i: user_id and
\* course_id are present only when the request carries them
UserContexts(i) == [user_id : {None, i}, course_id : {None, 10 * i}]

\* dict.update(other): the keys of other overwrite, the others stay
Update(dict, other) ==
    [user_id |-> IF other.user_id # None THEN other.user_id
                 ELSE dict.user_id,
     course_id |-> IF other.course_id # None THEN other.course_id
                   ELSE dict.course_id]

\* _enrich_task: the ids of the context are copied into the task
EnrichTask(ctx) == [user_id |-> ctx.user_id, course_id |-> ctx.course_id]

IsoInit ==
    /\ SchedIdle
    /\ PrioIdle
    /\ WorkIdle
    /\ PipeIdle
    /\ context = EmptyContext
    /\ user_context \in
          {uc \in [Invocations -> UNION {UserContexts(i) : i \in Invocations}] :
              \A i \in Invocations : uc[i] \in UserContexts(i)}
    /\ iso_pc = [i \in Invocations |-> "idle"]
    /\ stage_context = [i \in Invocations |-> Absent]
    /\ out_tasks = [i \in Invocations |-> <<>>]

\* execute_workflow, lines 86-87, then the parsing stage is called with
\* self.context and awaits the extraction (task_parsing_agent.py line 49)
ExecuteWorkflow(i) ==
    /\ iso_pc[i] = "idle"
    /\ context' = IF user_context[i] = EmptyContext THEN context
                  ELSE Update(context, user_context[i])
    /\ iso_pc' = [iso_pc EXCEPT ![i] = "extracting"]
    /\ UNCHANGED <<user_context, stage_context, out_tasks>>
    /\ UNCHANGED outsideIso

\* the extraction returns one task; _enrich_task reads the context dict it
\* was handed, which is the shared one, and the workflow returns the tasks
ExtractionReturns(i) ==
    /\ iso_pc[i] = "extracting"
    /\ stage_context' = [stage_context EXCEPT ![i] = <<context>>]
    /\ out_tasks' = [out_tasks EXCEPT ![i] = << EnrichTask(context) >>]
    /\ iso_pc' = [iso_pc EXCEPT ![i] = "done"]
    /\ UNCHANGED <<context, user_context>>
    /\ UNCHANGED outsideIso

IsoNext ==
    \/ \E i \in Invocations : ExecuteWorkflow(i)
    \/ \E i \in Invocations : ExtractionReturns(i)

IsoSpec == IsoInit /\ [][IsoNext]_vars

\* ------------------------------------------------- scheduler: properties
Done == pc = "done"

\* all sessions created so far (the day's sessions join the schedule at the
\* end of the day)
AllSessions == IF pc = "while" THEN schedule \o day_sessions ELSE schedule

RECURSIVE EstimatedSum(_, _)
\* sum of estimated_hours (in tenths) of the sessions of one task
EstimatedSum(ss, id) ==
    IF ss = <<>> THEN 0
    ELSE (IF Head(ss).task_id = id THEN Head(ss).estimated_hours ELSE 0)
         + EstimatedSum(Tail(ss), id)

RECURSIVE EstimatedTotal(_)
EstimatedTotal(ss) ==
    IF ss = <<>> THEN 0 ELSE Head(ss).estimated_hours + EstimatedTotal(Tail(ss))

\* the hours a task asks for, in tenths, as the caller sees them
AskedTenths(t) == IF t.predicted_hours = None THEN 20 ELSE t.predicted_hours

RECURSIVE AskedTotal(_)
AskedTotal(ts) == IF ts = <<>> THEN 0 ELSE AskedTenths(Head(ts)) + AskedTotal(Tail(ts))

Abs(x) == IF x < 0 THEN -x ELSE x

HasDue == \E i \in 1..Len(tasks) : tasks[i].due_date # None

\* days from the start date to the earliest due date (meaningful when HasDue)
DaysUntilEarliestDue ==
    (CHOOSE d \in {tasks[i].due_date : i \in {j \in 1..Len(tasks) : tasks[j].due_date # None}} :
        \A i \in 1..Len(tasks) : tasks[i].due_date # None => d <= tasks[i].due_date)
    - start_date

\* total_hours_needed / days_until_due > study_hours_per_day, in tenths
OverPace ==
    /\ HasDue
    /\ DaysUntilEarliestDue > 0
    /\ AskedTotal(tasks) > 10 * study_hours_per_day * DaysUntilEarliestDue

\* C1: after scheduling, for every input task the estimated_hours of its
\* sessions sum to its predicted hours within 0.01 hour.
C1_SessionSum ==
    Done => \A i \in 1..Len(tasks) :
        10 * Abs(EstimatedSum(schedule, tasks[i].id) - AskedTenths(tasks[i])) <= 1

\* C2: no session has estimated_hours below 0.5, and an iteration whose
\* session length is below 0.5 ends the day without creating a session.
C2_NoMicroSessions ==
    [][ /\ \A k \in 1..Len(AllSessions') :
             AllSessions'[k].estimated_hours >= 5
        /\ (pc = "while" /\ WhileCondition /\ SessionHours < Half)
             => (pc' = "for" /\ schedule' = schedule \o day_sessions) ]_vars

C2_Witness ==
    /\ pc = "while" /\ WhileCondition /\ SessionHours < Half
    /\ day_sessions # <<>>
    /\ user_preferences # Absent
    /\ user_preferences[1].estimation_bias = 12

\* C3: when the earliest due date is d > 0 days after the start and the
\* total hours exceed d * hoursPerDay, the result has needs_more_hours,
\* adjusted_hours_per_day = ceil(total / d), days_planned = d and a warning.
C3_Infeasible ==
    (Done /\ OverPace) =>
        LET r == result[1]
            d == DaysUntilEarliestDue
        IN  /\ r.needs_more_hours = TRUE
            /\ 10 * d * r.adjusted_hours_per_day >= AskedTotal(tasks)
            /\ 10 * d * (r.adjusted_hours_per_day - 1) < AskedTotal(tasks)
            /\ r.days_planned = d
            /\ r.warning # None
            /\ (tasks = TwentyHourTasks /\ study_hours_per_day = 5)
                  => r.adjusted_hours_per_day = 10

C3_Witness ==
    /\ Done /\ OverPace
    /\ tasks = TwentyHourTasks
    /\ result[1].adjusted_hours_per_day = 10

\* C4: when no task has a due date, or the earliest due date is not after
\* the start date, or the pace suffices, the result has no warning,
\* needs_more_hours = false, the requested hours per day, and
\* days_planned = ceil(total / hoursPerDay).
C4_Feasible ==
    (Done /\ ~OverPace) =>
        LET r == result[1]
        IN  /\ r.needs_more_hours = FALSE
            /\ r.warning = None
            /\ r.adjusted_hours_per_day = study_hours_per_day
            /\ 10 * study_hours_per_day * r.days_planned >= AskedTotal(tasks)
            /\ 10 * study_hours_per_day * (r.days_planned - 1) < AskedTotal(tasks)

C4_Witness ==
    /\ Done /\ HasDue /\ DaysUntilEarliestDue <= 0
    /\ AskedTotal(tasks) > 10 * study_hours_per_day
    /\ result[1].days_planned > 1

\* C5: a task list whose tasks all have zero remaining hours yields no
\* session.
C5_ZeroHours ==
    (\A i \in 1..Len(tasks) : tasks[i].predicted_hours = 0)
        => (AllSessions = <<>> /\ (Done => result[1].sessions = <<>>))

C5_Witness ==
    /\ Done /\ Len(tasks) = MaxTasks
    /\ \A i \in 1..Len(tasks) : tasks[i].predicted_hours = 0
    /\ result[1].sessions = <<>>

\* C6: the empty task list yields no sessions, zero total hours, zero
\* days, needs_more_hours = false and no warning.
C6_EmptyInput ==
    (Done /\ tasks = <<>>) =>
        /\ result[1].sessions = <<>>
        /\ result[1].total_hours = 0
        /\ result[1].days_planned = 0
        /\ result[1].needs_more_hours = FALSE
        /\ result[1].warning = None

C6_Witness ==
    /\ Done /\ tasks = <<>> /\ study_hours_per_day = MaxHoursPerDay
    /\ result[1].days_planned = 0

\* the order the pool is said to start in: descending priority_score, ties
\* by ascending due date, tasks without a due date last
AskedPriority(t) == IF t.priority_score = None THEN 50 ELSE t.priority_score

StrictlyBefore(a, b) ==
    \/ AskedPriority(a) > AskedPriority(b)
    \/ /\ AskedPriority(a) = AskedPriority(b)
       /\ a.due_date # None
       /\ (b.due_date = None \/ a.due_date < b.due_date)

\* number of input tasks that ask for hours
PositiveTasks == Cardinality({i \in 1..Len(tasks) : AskedTenths(tasks[i]) > 0})

\* the sessions of the first planned day that belong to the first pass
\* over the pool
FirstPass ==
    LET first == SelectSeq(AllSessions, LAMBDA x : x.day = start_date)
    IN  SubSeq(first, 1, Min2(Len(first), PositiveTasks))

\* C7: the pool starts sorted by descending priority, ties by ascending
\* due date with undated tasks last, and the first day creates its
\* sessions in that order (scenario: A, then B, then C).
C7_PriorityOrder ==
    /\ (pc = "for" /\ day_num = 0) =>
          \A i, j \in 1..Len(task_pool) :
              i < j => ~StrictlyBefore(task_pool[j].task, task_pool[i].task)
    /\ \A i, j \in 1..Len(FirstPass) :
          i < j => /\ FirstPass[i].task_id # FirstPass[j].task_id
                   /\ ~StrictlyBefore(tasks[FirstPass[j].task_id],
                                      tasks[FirstPass[i].task_id])
    /\ (Done /\ tasks = ScenarioTasks) =>
          /\ Len(schedule) >= 3
          /\ <<schedule[1].task_id, schedule[2].task_id, schedule[3].task_id>>
                = <<3, 1, 2>>
          /\ \A k \in 1..3 : schedule[k].day = start_date

C7_Witness ==
    /\ Done /\ tasks = ScenarioTasks
    /\ Len(FirstPass) = 3
    /\ FirstPass[1].task_id = 3

C7_WitnessTie ==
    /\ Done /\ Len(tasks) = 2 /\ Len(FirstPass) = 2
    /\ tasks[1].priority_score = tasks[2].priority_score
    /\ tasks[1].due_date = None /\ tasks[2].due_date # None
    /\ FirstPass[1].task_id = 2

ScenarioRun ==
    /\ Done
    /\ tasks = ScenarioTasks
    /\ study_hours_per_day = ScenarioHoursPerDay
    /\ user_preferences = Absent

\* C8 as stated: in the scenario the sessions sum to 10 hours and the plan
\* spans ceil(10/4) = 3 days.
C8_ScenarioThreeDays ==
    ScenarioRun =>
        /\ EstimatedTotal(result[1].sessions) = 100
        /\ result[1].days_planned = 3

\* C8 amended: in the scenario the sessions sum to 10 hours; A's deadline
\* two days after the start makes 4 hours per day too few, so the plan
\* spans 2 days at 5 hours per day with needs_more_hours set.
C8_ScenarioTwoDays ==
    ScenarioRun =>
        /\ EstimatedTotal(result[1].sessions) = 100
        /\ result[1].days_planned = 2
        /\ result[1].needs_more_hours = TRUE
        /\ result[1].adjusted_hours_per_day = 5
        /\ \A k \in 1..Len(result[1].sessions) :
              result[1].sessions[k].day \in {start_date, start_date + 1}

C8_Witness ==
    /\ ScenarioRun
    /\ Len(result[1].sessions) = 7
    /\ result[1].sessions[7].day = start_date + 1

\* ----------------------------------------------- prioritization: properties
PrioDone == p_pc = "done"

\* number of entries of the output that carry the id
Occurrences(ps, id) == Cardinality({k \in 1..Len(ps) : ps[k].task_id = id})

\* C9: for a non-empty task list and any answer of the Ranking Advisor,
\* every input task id appears exactly once in the priorities output.
C9_Completeness ==
    (PrioDone /\ p_tasks # <<>>) =>
        \A i \in 1..Len(p_tasks) :
            Occurrences(response[1].priorities, p_tasks[i].id) = 1

\* every list of entries the agent holds
EmittedEntries ==
    {rule_based, combined, final_priorities} \cup
    (IF response = Absent THEN {} ELSE {response[1].priorities})

\* C10: every priority_score the Priority Scorer emits, fused or heuristic,
\* lies in [0, 1].
C10_ScoreBound ==
    \A es \in EmittedEntries : \A k \in 1..Len(es) :
        /\ es[k].priority_score >= 0
        /\ es[k].priority_score <= Million

C10_Witness ==
    /\ PrioDone
    /\ llm_result # Absent
    /\ ~llm_result[1].error
    /\ Len(response[1].priorities) = 2
    /\ response[1].priorities[1].priority_score = Million
    /\ response[1].priorities[1].factors # <<>>
    /\ response[1].priorities[2].factors = <<>>

C10_WitnessFallback ==
    /\ PrioDone
    /\ llm_result # Absent
    /\ llm_result[1].error
    /\ \E k \in 1..Len(response[1].priorities) :
          response[1].priorities[k].priority_score = Million

\* the Ranking Advisor's result carries the error marker
AdvisorFailed == llm_result # Absent /\ llm_result[1].error

\* C11: when the Ranking Advisor result carries an error marker, the output
\* is exactly the heuristic ranking: one entry per input task, each with
\* its unmodified heuristic score, in descending order of that score.
C11_HeuristicFallback ==
    (PrioDone /\ AdvisorFailed) =>
        LET ps == response[1].priorities
        IN  /\ Len(ps) = Len(p_tasks)
            /\ \A i \in 1..Len(p_tasks) :
                  /\ Occurrences(ps, p_tasks[i].id) = 1
                  /\ \A k \in 1..Len(ps) :
                        ps[k].task_id = p_tasks[i].id =>
                            /\ ps[k].priority_score =
                                   CalculatePriorityScore(p_tasks[i])
                            /\ ps[k].factors = GetPriorityFactors(p_tasks[i])
            /\ \A k \in 1..(Len(ps) - 1) :
                  ps[k].priority_score >= ps[k + 1].priority_score

\* the fallback reorders the input: the second task outranks the first
C11_Witness ==
    /\ PrioDone
    /\ AdvisorFailed
    /\ Len(response[1].priorities) = 2
    /\ response[1].priorities[1].task_id = p_tasks[2].id
    /\ response[1].priorities[1].priority_score >
           response[1].priorities[2].priority_score

\* C12: every entry of the output carries a 1-based rank and the ranks of
\* one output are exactly 1..n, in the order of the list.
C12_Ranks ==
    PrioDone =>
        \A k \in 1..Len(response[1].priorities) :
            response[1].priorities[k].rank = k

\* --------------------------------------- workload prediction: properties
Max2(a, b) == IF a >= b THEN a ELSE b

\* _combine_predictions has run
Fused == llm_weight # None

\* C13: for every freeform confidence in [0,1] the freeform weight lies in
\* [0.3, 0.6] and the two weights sum to 1.0, so the blended hours lie
\* between the freeform and the calibrated hours (the returned value is
\* the blend rounded to one decimal).
C13_FusionWeights ==
    (Fused /\ llm_analysis[1].confidence >= 0
           /\ llm_analysis[1].confidence <= 100) =>
        LET llm_hours == llm_analysis[1].estimated_hours
            lo == Min2(llm_hours, ml_prediction)
            hi == Max2(llm_hours, ml_prediction)
        IN  /\ llm_weight >= 300
            /\ llm_weight <= 600
            /\ llm_weight + ml_weight = Thousand
            /\ combined_hours >= lo * Thousand
            /\ combined_hours <= hi * Thousand
            /\ final_prediction # Absent =>
                  /\ final_prediction[1].estimated_hours >= 10 * (lo \div 10)
                  /\ final_prediction[1].estimated_hours
                         <= 10 * Ceil(hi, 10)

\* full confidence: the freeform weight is 0.6 and 0.5h blended with 40h
\* gives 16.3h
C13_Witness ==
    /\ w_pc = "done"
    /\ Fused
    /\ llm_analysis[1].confidence = 100
    /\ llm_weight = 600
    /\ ml_weight = 400
    /\ llm_analysis[1].estimated_hours = 50
    /\ ml_prediction = 4000
    /\ w_response[1].data[1].estimated_hours = 1630

\* no confidence: the freeform weight is 0.3
C13_WitnessLow ==
    /\ w_pc = "done"
    /\ Fused
    /\ llm_analysis[1].confidence = 0
    /\ llm_weight = 300
    /\ llm_analysis[1].estimated_hours > ml_prediction

\* process has returned or raised
WorkEnded == w_pc \in {"done", "raised"}

\* no calibrated estimate is available
NoCalibration == ~is_trained \/ ~use_hybrid

\* C14: whenever no calibrated estimate is available (model not trained,
\* for either value of use_hybrid, or use_hybrid false), process completes
\* and returns the freeform estimate's hours, stress, complexity and
\* confidence.
C14_PassThrough ==
    (WorkEnded /\ w_task # Absent /\ NoCalibration) =>
        /\ w_pc = "done"
        /\ w_response # Absent
        /\ w_response[1].status = "completed"
        /\ w_response[1].data[1].estimated_hours =
               llm_analysis[1].estimated_hours
        /\ w_response[1].data[1].stress_score = llm_analysis[1].stress_score
        /\ w_response[1].data[1].complexity = llm_analysis[1].complexity
        /\ w_response[1].confidence = llm_analysis[1].confidence

\* ------------------------------------------------ FullPipeline: properties
PipeEnded == pl_pc \in {"done", "raised"}

\* the freeform estimator failed in the estimation that returned last
EstimatorFailed ==
    /\ llm_analysis # Absent
    /\ llm_analysis[1].explanation = AnalysisDefaults.explanation

\* C15: when the freeform estimator fails, the estimation stage yields the
\* fixed defaults (3.0h, stress 0.5, medium, confidence 0.3) instead of an
\* error and the pipeline goes on with every parsed task still present.
C15_EstimatorFailurePolicy ==
    (pl_pc = "estimate" /\ predict_response # Absent /\ EstimatorFailed) =>
        /\ llm_analysis[1].estimated_hours = 300
        /\ llm_analysis[1].stress_score = 50
        /\ llm_analysis[1].complexity = "medium"
        /\ llm_analysis[1].confidence = 30
        /\ predict_response[1].status = "completed"
        /\ Len(enriched_tasks) = pl_index
        /\ enriched_tasks[pl_index].estimated_hours # None

StageOrder(stage) ==
    CASE stage = "parse" -> 1
      [] stage = "estimate" -> 2
      [] stage = "prioritize" -> 3
      [] stage = "schedule" -> 4

\* positions of the log that hold the event
Events(stage, event, task) ==
    {k \in 1..Len(call_log) : /\ call_log[k].stage = stage
                              /\ call_log[k].event = event
                              /\ call_log[k].task = task}

\* C16: the stages run in the order parse, estimate, prioritize, schedule,
\* none is re-entered, the prioritization is called only after the
\* estimation of every parsed task has returned, and the scheduling only
\* after the prioritization has returned.
C16_StageOrder ==
    /\ \A j, k \in 1..Len(call_log) :
          j < k => StageOrder(call_log[j].stage)
                       <= StageOrder(call_log[k].stage)
    /\ \A k \in 1..Len(call_log) :
          /\ call_log[k].event = (IF k % 2 = 1 THEN "call" ELSE "return")
          /\ (k % 2 = 0) => /\ call_log[k].stage = call_log[k - 1].stage
                            /\ call_log[k].task = call_log[k - 1].task
    /\ \A stage \in {"parse", "prioritize", "schedule"} :
          Cardinality(Events(stage, "call", 0)) <= 1
    /\ \A i \in 1..MaxPipeTasks + 1 :
          Cardinality(Events("estimate", "call", i)) <= 1
    /\ \A k \in Events("prioritize", "call", 0) :
          \A i \in 1..Len(pl_tasks) :
              \E j \in Events("estimate", "return", i) : j < k
    /\ \A k \in Events("schedule", "call", 0) :
          \E j \in Events("prioritize", "return", 0) : j < k

\* a run of two tasks whose estimations both failed and that reached the
\* end of the scheduling
C16_Witness ==
    /\ pl_pc = "done"
    /\ Len(pl_tasks) = 2
    /\ Len(call_log) = 10
    /\ call_log[4].status = "error"
    /\ call_log[6].status = "error"
    /\ call_log[7].stage = "prioritize"
    /\ call_log[10].stage = "schedule"

\* C17: if the parsing stage returns an error, the workflow returns a
\* structured failure (success false, the error, the failing stage's name)
\* and calls no estimation, prioritization or scheduling.
C17_FatalExtraction ==
    (parse_response # Absent /\ parse_response[1].status = "error") =>
        /\ pl_pc \in {"parsed", "done"}
        /\ \A k \in 1..Len(call_log) : call_log[k].stage = "parse"
        /\ pl_pc = "done" =>
              /\ results[1].success = FALSE
              /\ results[1].error = parse_response[1].error
              /\ results[1].error # Absent
              /\ results[1].agent = <<"task_parsing">>

C17_Witness ==
    /\ pl_pc = "done"
    /\ parse_response[1].status = "error"
    /\ results[1].success = FALSE
    /\ Len(call_log) = 2

\* C18: when the Ranking Advisor fails, the workflow still returns a result
\* with success true, all tasks carrying priority_score and priority_rank,
\* after calling the scheduling; no exception leaves the orchestrator.
C18_RankingDegrades ==
    (PipeEnded /\ AdvisorFailed) =>
        /\ pl_pc = "done"
        /\ results[1].success
        /\ Events("schedule", "call", 0) # {}
        /\ \A i \in 1..Len(enriched_tasks) :
              /\ enriched_tasks[i].priority_score # None
              /\ enriched_tasks[i].priority_rank # None

\* the stage returned an error at least once
StageErrored(stage) ==
    \E k \in 1..Len(call_log) : /\ call_log[k].stage = stage
                                /\ call_log[k].event = "return"
                                /\ call_log[k].status = "error"

\* C19: when parsing succeeds but a later stage returns an error, the
\* result still contains the parsed tasks and the entry of that stage is
\* marked success = false.
C19_PartialFailureMarker ==
    (pl_pc = "done" /\ parse_response[1].status = "completed") =>
        /\ results[1].tasks # Absent
        /\ Len(results[1].tasks[1]) = Len(pl_tasks)
        /\ StageErrored("estimate") =>
              ~results[1].stages.workload_prediction[1].success
        /\ StageErrored("prioritize") =>
              ~results[1].stages.prioritization[1].success
        /\ StageErrored("schedule") =>
              ~results[1].stages.scheduling[1].success

\* ------------------------------------------------- invocations: properties
\* C20: across any sequence or interleaving of execute_workflow calls, the
\* context the stages of an invocation read and the ids on its output
\* tasks are only those its own caller supplied.
C20_InvocationIsolation ==
    \A i \in Invocations :
        stage_context[i] # Absent =>
            /\ stage_context[i][1] = user_context[i]
            /\ \A k \in 1..Len(out_tasks[i]) :
                  /\ out_tasks[i][k].user_id = user_context[i].user_id
                  /\ out_tasks[i][k].course_id = user_context[i].course_id

\* ------------------------------------- scheduler: allocation properties
\* C21: on every planned day the hours allocated to the day never exceed
\* adjusted_hours_per_day, whatever the inputs and the preferences.
C21_DailyBudget ==
    pc = "while" => day_hours_allocated <= adjusted_hours_per_day * Scale

\* the step creates a session
SessionCreated == Len(day_sessions') = Len(day_sessions) + 1

\* the session the step creates
NewSession == day_sessions'[Len(day_sessions')]

\* C22: two consecutive sessions of the session list, within a day or across
\* a day boundary, are for the same task only when no other task had hours
\* left at the moment the second one was created.
C22_RoundRobin ==
    [][(SessionCreated /\ AllSessions # <<>>) =>
          (NewSession.task_id = AllSessions[Len(AllSessions)].task_id =>
              \A k \in 1..Len(task_pool) :
                  task_pool[k].task.id # NewSession.task_id =>
                      task_pool[k].remaining_hours <= 0)]_vars

\* two tasks interleaved, the third session on a later day than the second
C22_Witness ==
    /\ Done
    /\ Len(schedule) >= 3
    /\ schedule[1].task_id # schedule[2].task_id
    /\ schedule[3].task_id = schedule[1].task_id
    /\ schedule[3].day > schedule[2].day

\* the cap as the specification words it, in scheduler units
ClaimedCap ==
    IF user_preferences = Absent THEN 2 * Scale
    ELSE LET p == user_preferences[1]
             given == IF p.recommended_session_length = None THEN 2 * Scale
                      ELSE p.recommended_session_length * Tenth
         IN  IF p.prefers_pomodoro /\ given > 3 * Half THEN 3 * Half ELSE given

\* remaining_hours of the task with this id
RemainingOf(pool, id) ==
    LET k == CHOOSE j \in 1..Len(pool) : pool[j].task.id = id
    IN  pool[k].remaining_hours

\* C23: the length of every session before the bias correction is
\* min(maxSessionLength, remaining hours of the task, hours left in the
\* day), maxSessionLength being 2.0 without preferences, the recommended
\* session length when given, and at most 1.5 with the short-session
\* preference; without preferences no session exceeds 2.0 hours.
C23_SessionCap ==
    [][SessionCreated =>
          LET before == Min3(ClaimedCap,
                             RemainingOf(task_pool, NewSession.task_id),
                             adjusted_hours_per_day * Scale - day_hours_allocated)
          IN  /\ day_hours_allocated' - day_hours_allocated =
                     BiasCorrected(user_preferences, before)
              /\ RemainingOf(task_pool, NewSession.task_id)
                     - RemainingOf(task_pool', NewSession.task_id) =
                     BiasCorrected(user_preferences, before)
              /\ user_preferences = Absent =>
                     NewSession.estimated_hours <= 20]_vars

\* a session cut to 1.5 hours by the short-session preference although 3
\* hours are recommended
C23_Witness ==
    /\ Done
    /\ user_preferences # Absent
    /\ user_preferences[1].prefers_pomodoro
    /\ user_preferences[1].recommended_session_length = 30
    /\ user_preferences[1].estimation_bias = None
    /\ \E k \in 1..Len(schedule) : schedule[k].estimated_hours = 15

\* C24: within one produced schedule no two sessions have the same id, two
\* sessions created on the same day included.
C24_UniqueSessionIds ==
    Done => \A j, k \in 1..Len(schedule) :
                j # k => schedule[j].id # schedule[k].id

\* the records of a list, as a set
Records(ts) == {ts[k] : k \in 1..Len(ts)}

\* C25: the scheduler never changes its input: the task records and the
\* order of the list stay as the caller gave them, the remaining hours are
\* kept in the pool only, and the pool and the sessions refer to the input
\* tasks without altering them.
C25_InputUntouched ==
    [][/\ tasks' = tasks
       /\ \A k \in 1..Len(task_pool') : task_pool'[k].task \in Records(tasks)
       /\ \A k \in 1..Len(day_sessions') :
             \E t \in Records(tasks) : day_sessions'[k].task_id = t.id]_vars

\* a finished run on a list the sort reorders, with hours taken from the pool
C25_Witness ==
    /\ Done
    /\ SortedTasks(tasks) # tasks
    /\ schedule # <<>>
    /\ \E k \in 1..Len(task_pool) :
          task_pool[k].remaining_hours # PredictedHoursOf(task_pool[k].task)

\* ------------------------------------------- prioritizer: the fusion rule
\* the external ranking of a run in which the Ranking Advisor answered
Ranking == llm_result[1].priorities

NoRepeats(r) == \A a, b \in 1..Len(r) : a # b => r[a] # r[b]

InputIds == {p_tasks[k].id : k \in 1..Len(p_tasks)}

InputTask(id) == CHOOSE t \in {p_tasks[k] : k \in 1..Len(p_tasks)} : t.id = id

\* ten N times the fused score the rule gives position k (1-based) of the
\* ranking, in millionths
RuleScoreTimesDen(k) ==
    LET n == Len(Ranking)
    IN  7 * Million * (n - (k - 1))
        + (IF Ranking[k] \in InputIds
           THEN 3 * n * CalculatePriorityScore(InputTask(Ranking[k])) ELSE 0)

\* a fusion of a ranking without repeats is under way or finished
Fusing ==
    /\ llm_result # Absent
    /\ ~llm_result[1].error
    /\ NoRepeats(Ranking)

\* C26 as stated: the entry at 0-based position i has rank i+1 and a
\* priority_score equal to 0.7*(1 - i/N) + 0.3*heuristic_score for an input
\* task and to 0.7*(1 - i/N), with empty factors, for any other id; the
\* input task ranked first has a score of at least 0.7.
C26_FusionRuleExact ==
    Fusing => \A k \in 1..Len(combined) :
        /\ combined[k].task_id = Ranking[k]
        /\ combined[k].rank = k
        /\ combined[k].priority_score * 10 * Len(Ranking) = RuleScoreTimesDen(k)
        /\ Ranking[k] \notin InputIds => combined[k].factors = <<>>
        /\ (k = 1 /\ Ranking[k] \in InputIds) =>
              10 * combined[k].priority_score >= 7 * Million

\* C26: the same, the priority_score being the value of the rule rounded
\* to three decimals.
C26_FusionRule ==
    Fusing => \A k \in 1..Len(combined) :
        /\ combined[k].task_id = Ranking[k]
        /\ combined[k].rank = k
        /\ combined[k].priority_score % 1000 = 0
        /\ 2 * Abs(combined[k].priority_score * 10 * Len(Ranking)
                   - RuleScoreTimesDen(k)) <= 1000 * 10 * Len(Ranking)
        /\ Ranking[k] \notin InputIds => combined[k].factors = <<>>
        /\ Ranking[k] \in InputIds =>
              combined[k].factors = GetPriorityFactors(InputTask(Ranking[k]))
        /\ (k = 1 /\ Ranking[k] \in InputIds) =>
              10 * combined[k].priority_score >= 7 * Million

\* a finished fusion of an input task and a foreign id in which the score
\* of the input task had to be rounded
C26_Witness ==
    /\ PrioDone
    /\ Fusing
    /\ Len(Ranking) = 2
    /\ Ranking[1] \in InputIds
    /\ Ranking[2] \notin InputIds
    /\ Len(response[1].priorities) = 2
    /\ response[1].priorities[1].priority_score * 20 # RuleScoreTimesDen(1)
    /\ response[1].priorities[2].priority_score = 350000

\* ---------------------------------------- scheduler: days and deadlines
\* C27: when the earliest due date is at least one day after the start
\* date, every session falls on a day from the start date up to, and
\* strictly before, that due date, in the feasible and in the infeasible
\* case; the days never decrease along the session list and stay below
\* start + days_planned.
C27_DeadlineContainment ==
    pc # "call" =>
        /\ (HasDue /\ DaysUntilEarliestDue >= 1) =>
              \A k \in 1..Len(AllSessions) :
                  /\ AllSessions[k].day >= start_date
                  /\ AllSessions[k].day < start_date + DaysUntilEarliestDue
        /\ \A k \in 1..Len(AllSessions) :
              /\ AllSessions[k].day < start_date + days_needed
              /\ k > 1 => AllSessions[k - 1].day <= AllSessions[k].day

\* an infeasible plan whose last session is on the eve of the due date
C27_Witness ==
    /\ Done
    /\ HasDue
    /\ DaysUntilEarliestDue >= 1
    /\ needs_more_hours
    /\ schedule # <<>>
    /\ schedule[Len(schedule)].day = start_date + DaysUntilEarliestDue - 1

\* a feasible plan that ends on the eve of the due date
C27_WitnessFeasible ==
    /\ Done
    /\ HasDue
    /\ DaysUntilEarliestDue >= 1
    /\ ~needs_more_hours
    /\ schedule # <<>>
    /\ schedule[Len(schedule)].day = start_date + DaysUntilEarliestDue - 1

\* C28: at every step of the allocation loop the remaining_hours of each
\* pool entry is at least 0 and at most its initial value, whatever the
\* inputs and the preferences.
C28_RemainingNonNegative ==
    \A k \in 1..Len(task_pool) :
        /\ task_pool[k].remaining_hours >= 0
        /\ task_pool[k].remaining_hours <= PredictedHoursOf(task_pool[k].task)

\* allocations of at least half an hour that still fit into the day
AllocationsLeft ==
    LET budget == adjusted_hours_per_day * Scale
    IN  IF day_hours_allocated >= budget THEN 0
        ELSE (2 * (budget - day_hours_allocated) + Scale - 1) \div Scale

\* an upper bound of the number of steps the call still takes
StepsLeft ==
    LET per_day == 2 * adjusted_hours_per_day + 2
    IN  IF pc = "for" THEN (days_needed - day_num) * per_day + 1
        ELSE IF pc = "while"
        THEN (days_needed - day_num - 1) * per_day + 2 + AllocationsLeft
        ELSE 0

\* C29: the scheduler terminates: every iteration of a day's loop either
\* allocates at least half an hour or leaves the loop, the number of steps
\* still to come decreases with every step, and the outer loop has run
\* exactly days_planned times when the call returns.
C29_Termination ==
    [][pc # "call" =>
          /\ StepsLeft' < StepsLeft
          /\ StepsLeft' >= 0
          /\ pc = "while" =>
                \/ /\ SessionCreated
                   /\ 2 * (day_hours_allocated' - day_hours_allocated) >= Scale
                \/ /\ pc' = "for"
                   /\ day_num' = day_num + 1
          /\ pc' = "done" =>
                /\ day_num' = days_needed
                /\ result'[1].days_planned = days_needed]_vars

\* a call with sessions of length 0 recommended: every day ends at its
\* first iteration and the call returns after days_planned days
C29_Witness ==
    /\ Done
    /\ user_preferences = ZeroLengthPreferences
    /\ days_needed > 1
    /\ day_num = days_needed
    /\ schedule = <<>>

\* until it returns the call always has a next step
C29_NeverStuck == pc # "done" => ENABLED SchedNext

\* -------------------------------------------- pipeline: task conservation
\* C30: when parsing succeeds and the workflow returns a result, the tasks
\* of the result are the parsed tasks, each once and in the parser's
\* order, and total_tasks equals the tasks_found of the parsing stage,
\* whatever the outcome of the estimations and of the prioritization.
C30_TaskConservation ==
    (pl_pc = "done" /\ parse_response[1].status = "completed") =>
        LET parsed == DataTasks(parse_response[1])
        IN  /\ results[1].tasks # Absent
            /\ Len(results[1].tasks[1]) = Len(parsed)
            /\ \A k \in 1..Len(parsed) :
                  results[1].tasks[1][k].id = parsed[k].id
            /\ results[1].total_tasks = Len(parsed)
            /\ results[1].total_tasks = results[1].stages.parsing[1].count

\* a result for two parsed tasks whose estimations both failed
C30_Witness ==
    /\ pl_pc = "done"
    /\ parse_response[1].status = "completed"
    /\ Len(DataTasks(parse_response[1])) = 2
    /\ Len(results[1].tasks[1]) = 2
    /\ StageErrored("estimate")
    /\ results[1].tasks[1][1].estimated_hours = None

\* a result for two parsed tasks whose estimations completed
C30_WitnessEstimated ==
    /\ pl_pc = "done"
    /\ parse_response[1].status = "completed"
    /\ Len(results[1].tasks[1]) = 2
    /\ ~StageErrored("estimate")
    /\ results[1].tasks[1][2].estimated_hours # None

====
